---- MODULE Spec2Model ----
(***************************************************************************)
(* Range/grid trading bot (src/grid_bot.py) against a remote order book.   *)
(*                                                                         *)
(* Units: prices and cash are integers in cents (0.01 USD, the price       *)
(* increment of round_price); quantities are integers in millionths of     *)
(* the base asset (the quantity increment of round_qty); percentages with  *)
(* a fractional part are in tenths of a percent.  The price 0 stands for   *)
(* Python's None.                                                          *)
(*                                                                         *)
(* The remote (the brokerage behind `trading`) is the environment: it      *)
(* keeps client order ids unique over all orders of the account, open or   *)
(* closed (the duplicate error submit_limit_buy's docstring relies on),    *)
(* fills and cancels open orders on its own, and may fail any call.  The   *)
(* order status is taken to print as its value ("filled"), as the          *)
(* comparison in ensure_tp_after_fills expects.                            *)
(***************************************************************************)
EXTENDS Integers, Sequences, FiniteSets, TLC

\* ---- configuration (module-level globals of grid_bot.py) ----------------
\* GRID_LOW, GRID_HIGH and GRID_LEVELS are variables, set when the process
\* starts; the other settings are the same in every run.
QTY_PER_LEVEL == 10000
TP_PCT == 5
BREAK_BUFFER_PCT == 1
MAX_OPEN_BUYS == 2

None == 0

\* ---- inputs of the model ------------------------------------------------
\* Last prices the market-data call can return (None = no bar / exception).
PriceInputs == {None, 395999, 396000, 396001, 444400, 444401}
\* Cash the account reports when the process starts.
CashInputs == {5000, 1000000}
\* Price of a resting buy order that was not placed by this program.
ForeignPrice == 390000
\* Settings of the range that build_price_grid is applied to.
LowInputs == {400000, 401999, 440000}
HighInputs == {400000, 440000}
LevelInputs == {0, 1, 2, 4}

VARIABLES
  GRID_LOW,    \* lower end of the range
  GRID_HIGH,   \* upper end of the range
  GRID_LEVELS, \* number of steps over the range
  orders,      \* the remote book: every order of the symbol, open or closed
  position,    \* remote position quantity of the symbol
  cash,        \* remote account cash (grid_bot.py never reads it)
  mode,        \* "once" | "loop"          (CLI flags, main)
  rebuild,     \* REBUILD_ON_START
  liquidate,   \* LIQUIDATE_ON_BREAK
  pc,          \* position of the process
  price,       \* trade_once: local `price`, until its last use (the check)
  grid,        \* trade_once: local `grid` of the current round
  ran,         \* the handler that ran last in the current round
  log,         \* what that handler did: its remote calls, in order
  last,        \* outcome of the latest ensure_buy_grid call (history)
  rel,         \* `last` as ensure_buy_grid found it, while its log is kept
  broke        \* the round before the current one declared a range break
               \* (history)

vars == <<GRID_LOW, GRID_HIGH, GRID_LEVELS, orders, position, cash, mode, rebuild, liquidate, pc, price, grid, ran, log,
          last, rel, broke>>

config == <<GRID_LOW, GRID_HIGH, GRID_LEVELS, mode, rebuild, liquidate>>

\* ---- remote orders ------------------------------------------------------
OpenStatuses == {"new", "partially_filled"}
ClosedStatuses == {"filled", "canceled"}

\* client_order_id: tag, the key that follows the tag, and a suffix
\* (0 = no suffix).
Cid(tag, key, sfx) == [tag |-> tag, key |-> key, sfx |-> sfx]

\* An order of the book.  The remote's order id is not modelled apart from
\* the client order id, which the remote keeps unique.
Order(side, cid, lp, qty) ==
  [side |-> side, cid |-> cid, limit_price |-> lp, qty |-> qty,
   status |-> "new", filled_qty |-> 0, filled_avg_price |-> None]

ForeignBuy == Order("buy", Cid("MANUAL", 1, 0), ForeignPrice, QTY_PER_LEVEL)

IsOpen(o) == o.status \in OpenStatuses

\* The order in which a list call returns orders: here by ascending price.
RECURSIVE Listed(_)
Listed(S) ==
  IF S = {} THEN <<>>
  ELSE LET first == CHOOSE o \in S : \A x \in S : o.limit_price <= x.limit_price
       IN <<first>> \o Listed(S \ {first})

\* One entry of the log.  A remote call: op is "list_open", "list_closed",
\* "cancel", "submit" (limit order) or "market"; ok tells whether the call
\* succeeded, dup whether the client order id submitted was already on the
\* remote.  The entry "cap" marks that ensure_buy_grid stopped on max_open.
Req(op, side, cid, p, qty, ok, dup) ==
  [op |-> op, side |-> side, cid |-> cid, price |-> p, qty |-> qty,
   ok |-> ok, dup |-> dup]

NoCid == Cid("", 0, 0)

ListReq(op, ok) == Req(op, "", NoCid, None, 0, ok, FALSE)

\* ensure_buy_grid leaves on the open-buy cap (its return and its break).
CapStop(st) == [st EXCEPT !.log = Append(@, ListReq("cap", TRUE))]

\* ---- rounding -----------------------------------------------------------
\* Binary floating-point results that lie just below the cent they stand
\* for, as <<num, den>> = the value num/den cents:
\*   4000.0 * (1.0 + 0.5 / 100.0) is 4019.9999999999995,
\*   the float 4019.99 is 4019.989999999999781721..., and so are the floats
\*   4004.99, 4009.99, 4114.99 and 4209.99 and the sums 4019.99 + 0 * step
\*   of build_price_grid.
Shortfall ==
  {<<402000000, 1000>>, <<401999, 1>>,
   <<400499, 1>>, <<400999, 1>>, <<411499, 1>>, <<420999, 1>>,
   <<803998, 2>>, <<1607996, 4>>}

\* round_price: the float num/den cents truncated (ROUND_DOWN) to a cent.
round_price(num, den) ==
  IF <<num, den>> \in Shortfall THEN (num \div den) - 1 ELSE num \div den

\* Quantities whose float lies just below the millionth it stands for:
\*   the float 0.03 is 0.0299999999999999988897..., and
\*   the float 0.000001 is 0.000000999999999999999954748...
QtyShortfall == {<<30000, 1>>, <<1, 1>>}

\* round_qty: the float num/den millionths truncated (ROUND_DOWN) to a
\* millionth.
round_qty(num, den) ==
  IF <<num, den>> \in QtyShortfall THEN (num \div den) - 1 ELSE num \div den

\* ---- remote calls -------------------------------------------------------
\* State threaded through the calls of one handler.
St(book, pos, lg) == [orders |-> book, position |-> pos, log |-> lg]

\* trading.submit_order of a limit order.  The remote rejects a client
\* order id that any order of the account, open or closed, already carries;
\* `fail` is a transient failure of the call.
submit_order(st, side, cid, lp, qty, fail) ==
  LET dup == \E o \in st.orders : o.cid = cid
      ok == ~fail /\ ~dup
  IN [st EXCEPT
        !.orders = IF ok THEN @ \cup {Order(side, cid, lp, qty)} ELSE @,
        !.log = Append(@, Req("submit", side, cid, lp, qty, ok, dup))]

submit_limit_buy(st, qty, p, cid, fail) ==
  submit_order(st, "buy", cid, round_price(p, 1), round_qty(qty, 1), fail)

submit_limit_sell(st, qty, p, cid, fail) ==
  submit_order(st, "sell", cid, round_price(p, 1), round_qty(qty, 1), fail)

\* Variant of open_orders_for_symbol: the request filters on the closed
\* instead of the open orders.
open_orders_closed(book, listOk) ==
  IF listOk THEN {o \in book : o.status \in ClosedStatuses} ELSE {}

\* open_orders_for_symbol: the open orders, or [] when the call fails.
open_orders_for_symbol(book, listOk) ==
  IF listOk THEN {o \in book : IsOpen(o)} ELSE {}

\* The call of open_orders_for_symbol as it appears in the log.
Listing(st, op, ok) == [st EXCEPT !.log = Append(@, ListReq(op, ok))]

\* trading.cancel_order_by_id inside cancel_all_open_orders' loop.
cancel_order_by_id(st, o, fail) ==
  [st EXCEPT
     !.orders = IF fail THEN @
                ELSE (@ \ {o}) \cup {[o EXCEPT !.status = "canceled"]},
     !.log = Append(@, Req("cancel", o.side, o.cid, o.limit_price, o.qty,
                           ~fail, FALSE))]

\* Variant of CancelLoop: the first failed cancellation ends the loop.
RECURSIVE CancelLoop_stop(_, _, _)
CancelLoop_stop(st, os, failIds) ==
  IF os = <<>> THEN st
  ELSE IF Head(os).cid \in failIds
  THEN cancel_order_by_id(st, Head(os), TRUE)
  ELSE CancelLoop_stop(cancel_order_by_id(st, Head(os), FALSE), Tail(os), failIds)

RECURSIVE CancelLoop(_, _, _)
CancelLoop(st, os, failIds) ==
  IF os = <<>> THEN st
  ELSE CancelLoop(cancel_order_by_id(st, Head(os), Head(os).cid \in failIds),
                  Tail(os), failIds)

\* cancel_all_open_orders.  listOk: the list call succeeds; failIds: the
\* orders whose cancellation fails.
cancel_all_open_orders(st, listOk, failIds) ==
  CancelLoop(Listing(st, "list_open", listOk),
             Listed(open_orders_for_symbol(st.orders, listOk)), failIds)

\* get_position_qty: the position, or 0.0 when the call fails.
get_position_qty(pos, posOk) == IF posOk THEN pos ELSE 0

\* market_liquidate: a market sell of the whole position; the remote fills
\* an accepted market order at once.
market_liquidate(st, posOk, fail) ==
  LET qty == get_position_qty(st.position, posOk)
  IN IF qty > 0
     THEN [st EXCEPT
             !.position = IF fail THEN @ ELSE @ - round_qty(qty, 1),
             !.log = Append(@, Req("market", "sell", NoCid, None,
                                   round_qty(qty, 1), ~fail, FALSE))]
     ELSE st

\* ---- grid ----------------------------------------------------------------
\* sorted(set(...)): the elements of a set of prices in ascending order.
RECURSIVE sorted(_)
sorted(S) ==
  IF S = {} THEN <<>>
  ELSE LET m == CHOOSE x \in S : \A y \in S : x <= y
       IN <<m>> \o sorted(S \ {m})

\* build_price_grid: low + i * step for i in 0..levels, step = (high - low)
\* / levels, each truncated to a cent.
build_price_grid(low, high, levels) ==
  IF levels < 2
  THEN <<round_price(low, 1), round_price(high, 1)>>
  ELSE sorted({round_price(low * levels + i * (high - low), levels) :
                 i \in 0..levels})

Abs(x) == IF x < 0 THEN -x ELSE x

\* same_price (nested in ensure_buy_grid): abs(a - b) <= 0.01.  (No two
\* prices of this configuration lie exactly one cent apart, where the
\* floating-point difference can exceed 0.01.)
same_price(a, b) == Abs(a - b) <= 1

\* Variant of buy_cid: the identifier carries a component that is new for
\* every state of the book.
buy_cid_fresh(p) == Cid("GRIDBUY", round_price(p, 1), Cardinality(orders) + 1)

\* cid = f"GRIDBUY-{round_price(p):.2f}"
buy_cid(p) == Cid("GRIDBUY", round_price(p, 1), 0)

\* The for-loop of ensure_buy_grid from element i of wants on.
RECURSIVE BuyLoop(_, _, _, _, _, _, _, _)
BuyLoop(st, wants, i, open_buys, created, qty_per_level, max_open, failPrices) ==
  IF i > Len(wants) THEN st
  ELSE
    LET p == wants[i]
        cid == buy_cid(p)
        existing_prices == {o.limit_price : o \in {x \in open_buys : x.limit_price # None}}
        existing_cids == {o.cid : o \in open_buys}
    IN IF (\E ep \in existing_prices : same_price(p, ep)) \/ cid \in existing_cids
       THEN BuyLoop(st, wants, i + 1, open_buys, created, qty_per_level,
                    max_open, failPrices)
       ELSE IF Cardinality(open_buys) + created >= max_open
       THEN CapStop(st)
       ELSE BuyLoop(submit_limit_buy(st, qty_per_level, p, cid, p \in failPrices),
                    wants, i + 1, open_buys, created + 1, qty_per_level,
                    max_open, failPrices)

\* Variant of Wants: the comparison with the range middle is reversed.
Wants_upper(grid_prices) ==
  SelectSeq(grid_prices, LAMBDA p : 2 * p > GRID_LOW + GRID_HIGH)

\* The levels ensure_buy_grid wants a buy at: those below the range middle.
Wants(grid_prices) ==
  SelectSeq(grid_prices, LAMBDA p : 2 * p < GRID_LOW + GRID_HIGH)

\* ensure_buy_grid.  listOk: the list-orders call succeeds; failPrices: the
\* levels whose submission fails transiently.
ensure_buy_grid(st, grid_prices, qty_per_level, max_open, listOk, failPrices) ==
  LET oo == open_orders_for_symbol(st.orders, listOk)
      open_buys == {o \in oo : o.side = "buy"}
  IN IF Cardinality(open_buys) >= max_open
     THEN CapStop(Listing(st, "list_open", listOk))
     ELSE BuyLoop(Listing(st, "list_open", listOk), Wants(grid_prices), 1,
                  open_buys, 0, qty_per_level, max_open, failPrices)

\* ---- take-profit ---------------------------------------------------------
\* list_filled_grid_buys: closed orders tagged GRIDBUY- with a fill price,
\* or [] when the call fails.
list_filled_grid_buys(book, closedOk) ==
  IF closedOk
  THEN {o \in book : /\ o.status \in ClosedStatuses
                     /\ o.cid.tag = "GRIDBUY"
                     /\ o.filled_avg_price # None}
  ELSE {}

\* o.client_order_id.split("GRIDTP-")[-1]: what follows the tag.
buy_id(cid) == Cid("GRIDBUY", cid.key, cid.sfx)

\* list_open_tp_orders: the keys of {buy_client_id -> tp_price}.
list_open_tp_orders(book, listOk) ==
  {buy_id(o.cid) : o \in {x \in open_orders_for_symbol(book, listOk) :
                            x.cid.tag = "GRIDTP"}}

\* Variant of tp_cid: the identifier carries a component that is new for
\* every state of the book.
tp_cid_fresh(cid) == Cid("GRIDTP", cid.key, Cardinality(orders) + 1)

\* tp_cid = f"GRIDTP-{buy_cid}"
tp_cid(cid) == Cid("GRIDTP", cid.key, cid.sfx)

\* tp_price = round_price(fill_price * (1.0 + tp_pct / 100.0))
tp_price(fill_price, tp_pct) == round_price(fill_price * (1000 + tp_pct), 1000)

\* The for-loop of ensure_tp_after_fills over the filled buys.
RECURSIVE TpLoop(_, _, _, _, _)
TpLoop(st, filled_buys, open_tp_map, tp_pct, failKeys) ==
  IF filled_buys = <<>> THEN st
  ELSE
    LET o == Head(filled_buys)
        rest == Tail(filled_buys)
    IN IF o.cid \in open_tp_map
       THEN TpLoop(st, rest, open_tp_map, tp_pct, failKeys)
       ELSE IF o.status \notin {"filled", "partially_filled", "closed"}
       THEN TpLoop(st, rest, open_tp_map, tp_pct, failKeys)
       ELSE IF o.filled_qty <= 0 \/ o.filled_avg_price <= 0
       THEN TpLoop(st, rest, open_tp_map, tp_pct, failKeys)
       ELSE TpLoop(submit_limit_sell(st, o.filled_qty,
                                     tp_price(o.filled_avg_price, tp_pct),
                                     tp_cid(o.cid), o.cid.key \in failKeys),
                   rest, open_tp_map, tp_pct, failKeys)

\* ensure_tp_after_fills.  closedOk / openOk: the two list calls succeed;
\* failKeys: the buys whose take-profit submission fails transiently.
ensure_tp_after_fills(st, tp_pct, closedOk, openOk, failKeys) ==
  LET filled_buys == list_filled_grid_buys(st.orders, closedOk)
      st1 == Listing(st, "list_closed", closedOk)
  IN IF filled_buys = {}
     THEN st1
     ELSE TpLoop(Listing(st1, "list_open", openOk), Listed(filled_buys),
                 list_open_tp_orders(st.orders, openOk), tp_pct, failKeys)

\* ---- range break ---------------------------------------------------------
\* Variant of check_range_break: the comparisons include the thresholds.
check_range_break_incl(p) ==
  \/ p * 100 <= GRID_LOW * (100 - BREAK_BUFFER_PCT)
  \/ p * 100 >= GRID_HIGH * (100 + BREAK_BUFFER_PCT)

\* check_range_break: price < lo or price > hi with
\* lo = GRID_LOW * (1 - BREAK_BUFFER_PCT / 100), hi = GRID_HIGH * (1 + ...).
check_range_break(p) ==
  \/ p * 100 < GRID_LOW * (100 - BREAK_BUFFER_PCT)
  \/ p * 100 > GRID_HIGH * (100 + BREAK_BUFFER_PCT)

\* range_break_action
range_break_action(st, liq, listOk, failIds, posOk, mktFail) ==
  LET st1 == cancel_all_open_orders(st, listOk, failIds)
  IN IF liq THEN market_liquidate(st1, posOk, mktFail) ELSE st1

\* ---- history of ensure_buy_grid calls --------------------------------------
\* last: "none" before the first call; after a call "clean" when every
\* submission of the call was accepted, "rejected" otherwise; "changed" once
\* the remote state changed after the call returned.
Touch(book, pos) ==
  IF (book # orders \/ pos # position) /\ last # "none"
  THEN "changed"
  ELSE last

\* ---- the process -----------------------------------------------------------
Init ==
  /\ GRID_LOW = 400000
  /\ GRID_HIGH = 440000
  /\ GRID_LEVELS = 4
  /\ orders \in {{}, {ForeignBuy}}
  /\ position = 0
  /\ cash \in CashInputs
  /\ mode \in {"once", "loop"}
  /\ rebuild \in BOOLEAN
  /\ liquidate \in BOOLEAN
  /\ pc = "main"
  /\ price = None
  /\ grid = <<>>
  /\ ran = "none"
  /\ log = <<>>
  /\ last = "none"
  /\ rel = "none"
  /\ broke = FALSE

\* A handler starts on the current remote state with an empty log.
Begin == St(orders, position, <<>>)

\* The prices of a grid.
Levels(g) == {g[i] : i \in 1..Len(g)}

OpenIds == {o.cid : o \in {x \in orders : IsOpen(x)}}

\* Where the process goes when trade_once returns: main returns after one
\* round, loop_forever sleeps.
AfterRound == IF mode = "once" THEN "exit" ELSE "sleep"

\* main, --once (or no flag): trade_once is called directly.
MainOnce ==
  /\ pc = "main"
  /\ mode = "once"
  /\ pc' = "round"
  /\ UNCHANGED <<orders, position, cash, config, price, grid, ran, log, last, rel, broke>>

\* main, --loop: loop_forever up to its first trade_once.
LoopStart ==
  /\ pc = "main"
  /\ mode = "loop"
  /\ \E listOk \in BOOLEAN, failIds \in SUBSET OpenIds :
       LET st == IF rebuild
                 THEN cancel_all_open_orders(Begin, listOk, failIds)
                 ELSE Begin
       IN /\ orders' = st.orders
          /\ log' = st.log
          /\ last' = Touch(st.orders, position)
  /\ ran' = IF rebuild THEN "cancel_all_open_orders" ELSE "none"
  /\ pc' = "sleep"
  /\ UNCHANGED <<position, cash, config, price, grid, rel, broke>>

\* Variant of Sleep: a declared break is remembered, and the round after a
\* break round handles a break again without looking at the price.
Sleep_latched ==
  /\ pc = "sleep"
  /\ pc' = IF ran = "range_break_action" THEN "break" ELSE "round"
  /\ price' = None
  /\ grid' = <<>>
  /\ ran' = "none"
  /\ log' = <<>>
  /\ rel' = "none"
  /\ broke' = (ran = "range_break_action")
  /\ UNCHANGED <<orders, position, cash, config, last>>

\* loop_forever: time.sleep(interval_sec) is over and trade_once is called
\* again; the locals of the previous round are gone.
Sleep ==
  /\ pc = "sleep"
  /\ pc' = "round"
  /\ price' = None
  /\ grid' = <<>>
  /\ ran' = "none"
  /\ log' = <<>>
  /\ rel' = "none"
  /\ broke' = (ran = "range_break_action")
  /\ UNCHANGED <<orders, position, cash, config, last>>

\* Variant of NoPrice: now_price lets the exception of the market-data call
\* go, and nothing above it handles it: the process dies on it.
NoPrice_raise ==
  /\ pc = "round"
  /\ ran' = "now_price"
  /\ pc' = "crash"
  /\ UNCHANGED <<orders, position, cash, config, price, grid, log, last, rel, broke>>

\* trade_once, no price available (no bar, or the market-data call failed
\* and now_price returned None): the round is skipped.
NoPrice ==
  /\ pc = "round"
  /\ ran' = "now_price"
  /\ pc' = AfterRound
  /\ UNCHANGED <<orders, position, cash, config, price, grid, log, last, rel, broke>>

\* trade_once, check_range_break(price) is true.
DeclareBreak ==
  /\ pc = "round"
  /\ \E p \in PriceInputs \ {None} :
       /\ check_range_break(p)
       /\ price' = p
  /\ pc' = "break"
  /\ UNCHANGED <<orders, position, cash, config, grid, ran, log, last, rel, broke>>

\* Variant of RangeBreakAction: trade_once does not return after
\* range_break_action and goes on to build the grid.
RangeBreakAction_noreturn ==
  /\ pc = "break"
  /\ \E listOk \in BOOLEAN, failIds \in SUBSET OpenIds,
        posOk \in BOOLEAN, mktFail \in BOOLEAN :
       LET st == range_break_action(Begin, liquidate,
                                    listOk, failIds, posOk, mktFail)
       IN /\ orders' = st.orders
          /\ position' = st.position
          /\ log' = st.log
          /\ last' = Touch(st.orders, st.position)
  /\ ran' = "range_break_action"
  /\ grid' = build_price_grid(GRID_LOW, GRID_HIGH, GRID_LEVELS)
  /\ pc' = "reconcile"
  /\ UNCHANGED <<cash, config, price, rel, broke>>

\* range_break_action, then trade_once returns.
RangeBreakAction ==
  /\ pc = "break"
  /\ \E listOk \in BOOLEAN, failIds \in SUBSET OpenIds,
        posOk \in BOOLEAN, mktFail \in BOOLEAN :
       LET st == range_break_action(Begin, liquidate,
                                    listOk, failIds, posOk, mktFail)
       IN /\ orders' = st.orders
          /\ position' = st.position
          /\ log' = st.log
          /\ last' = Touch(st.orders, st.position)
  /\ ran' = "range_break_action"
  /\ price' = None
  /\ pc' = AfterRound
  /\ UNCHANGED <<cash, config, grid, rel, broke>>

\* trade_once, price inside the buffered range: the grid is built.
BuildGrid ==
  /\ pc = "round"
  /\ \E p \in PriceInputs \ {None} :
       /\ ~check_range_break(p)
       /\ price' = p
  /\ grid' = build_price_grid(GRID_LOW, GRID_HIGH, GRID_LEVELS)
  /\ pc' = "reconcile"
  /\ UNCHANGED <<orders, position, cash, config, ran, log, last, rel, broke>>

\* ensure_buy_grid(SYMBOL, grid, QTY_PER_LEVEL, MAX_OPEN_BUYS)
EnsureBuyGrid ==
  /\ pc = "reconcile"
  /\ \E listOk \in BOOLEAN, failPrices \in SUBSET Levels(Wants(grid)) :
       LET st == ensure_buy_grid(Begin, grid,
                                 QTY_PER_LEVEL, MAX_OPEN_BUYS, listOk, failPrices)
       IN /\ orders' = st.orders
          /\ log' = st.log
          /\ last' = IF \A i \in 1..Len(st.log) :
                             st.log[i].op = "submit" => st.log[i].ok
                     THEN "clean" ELSE "rejected"
  /\ rel' = last
  /\ ran' = "ensure_buy_grid"
  /\ price' = None
  /\ pc' = "link"
  /\ UNCHANGED <<position, cash, config, grid, broke>>

\* ensure_tp_after_fills(SYMBOL, TP_PCT), then trade_once returns.
EnsureTp ==
  /\ pc = "link"
  /\ \E closedOk \in BOOLEAN, openOk \in BOOLEAN,
        failKeys \in SUBSET Levels(Wants(grid)) :
       LET st == ensure_tp_after_fills(Begin, TP_PCT,
                                       closedOk, openOk, failKeys)
       IN /\ orders' = st.orders
          /\ log' = st.log
          /\ last' = Touch(st.orders, position)
  /\ ran' = "ensure_tp_after_fills"
  /\ rel' = "none"
  /\ pc' = AfterRound
  /\ UNCHANGED <<position, cash, config, price, grid, broke>>

\* ---- the remote ------------------------------------------------------------
\* The remote changes the book while the process waits between two of its
\* own remote-touching handlers: before startup, before a round, and between
\* ensure_buy_grid and ensure_tp_after_fills.  (A change at any other
\* position commutes with the local step next to it.)
RemoteTurn == pc \in {"main", "round", "link"}

\* The remote fills an open order in full at its limit price; a sell
\* needs the position it sells.
RemoteFill ==
  /\ RemoteTurn
  /\ \E o \in orders :
       /\ IsOpen(o)
       /\ o.side = "sell" => position >= o.qty
       /\ orders' = (orders \ {o}) \cup
            {[o EXCEPT !.filled_qty = o.qty,
                       !.filled_avg_price = o.limit_price,
                       !.status = "filled"]}
       /\ position' = IF o.side = "buy"
                      THEN position + o.qty
                      ELSE position - o.qty
       /\ last' = Touch(orders', position')
  /\ UNCHANGED <<cash, config, pc, price, grid, ran, log, rel, broke>>

\* The account owner (or the exchange) cancels an open order.
RemoteCancel ==
  /\ RemoteTurn
  /\ \E o \in orders :
       /\ IsOpen(o)
       /\ orders' = (orders \ {o}) \cup {[o EXCEPT !.status = "canceled"]}
       /\ last' = Touch(orders', position)
  /\ UNCHANGED <<position, cash, config, pc, price, grid, ran, log, rel, broke>>

Next ==
  \/ MainOnce
  \/ LoopStart
  \/ Sleep
  \/ NoPrice
  \/ DeclareBreak
  \/ RangeBreakAction
  \/ BuildGrid
  \/ EnsureBuyGrid
  \/ EnsureTp
  \/ RemoteFill
  \/ RemoteCancel

Spec == Init /\ [][Next]_vars

\* The steps of the process itself, as opposed to those of the remote.
Process ==
  \/ MainOnce
  \/ LoopStart
  \/ Sleep
  \/ NoPrice
  \/ DeclareBreak
  \/ RangeBreakAction
  \/ BuildGrid
  \/ EnsureBuyGrid
  \/ EnsureTp

\* The process keeps running: every call it makes returns (the handlers
\* catch the failure of a call) and time.sleep ends.  Nothing is assumed
\* about the remote.
Fairness == WF_vars(Process)

\* Progress is checked from the starts with an empty book and the larger
\* cash: the process reads neither the cash nor whose order an order is.
FairInit == Init /\ orders = {} /\ cash = 1000000

FairSpec == FairInit /\ [][Next]_vars /\ Fairness

\* ---- build_price_grid over the settings of the range -----------------------
\* The process at line 363 of a round of its own, for every setting of the
\* range drawn from the input sets, on an empty book.
GridInit ==
  /\ GRID_LOW \in LowInputs
  /\ GRID_HIGH \in HighInputs
  /\ GRID_LEVELS \in LevelInputs
  /\ orders = {}
  /\ position = 0
  /\ cash = 1000000
  /\ mode = "once"
  /\ rebuild = FALSE
  /\ liquidate = FALSE
  /\ pc = "grid"
  /\ price = None
  /\ grid = <<>>
  /\ ran = "none"
  /\ log = <<>>
  /\ last = "none"
  /\ rel = "none"
  /\ broke = FALSE

\* grid = build_price_grid(GRID_LOW, GRID_HIGH, GRID_LEVELS)
ApplyBuildGrid ==
  /\ pc = "grid"
  /\ grid' = build_price_grid(GRID_LOW, GRID_HIGH, GRID_LEVELS)
  /\ ran' = "build_price_grid"
  /\ pc' = "reconcile"
  /\ UNCHANGED <<orders, position, cash, config, price, log, last, rel, broke>>

GridNext ==
  \/ ApplyBuildGrid
  \/ EnsureBuyGrid

GridSpec == GridInit /\ [][GridNext]_vars

\* ---- properties ------------------------------------------------------------
OpenBuys(book) == {o \in book : IsOpen(o) /\ o.side = "buy"}

OpenTps(book) == {o \in book : IsOpen(o) /\ o.side = "sell" /\ o.cid.tag = "GRIDTP"}

Submits(lg) == {i \in 1..Len(lg) : lg[i].op = "submit"}

\* The handler that ran last, and whose log is kept, is ...
AfterBuyGrid == ran = "ensure_buy_grid"
AfterTp == ran = "ensure_tp_after_fills"
AfterBreak == ran = "range_break_action"

\* C1: in every reachable state the book holds at most one open buy order
\* per grid level, two prices being the same level when they differ by at
\* most one cent.
C1_OneBuyPerLevel ==
  \A a \in OpenBuys(orders), b \in OpenBuys(orders) :
    Abs(a.limit_price - b.limit_price) <= 1 => a = b

\* C1 witness: ensure_buy_grid ran on a failed list-orders call and submitted
\* a buy for a level whose buy is open; the remote turned it down.
C1_Witness ==
  /\ AfterBuyGrid
  /\ ~log[1].ok
  /\ \E i \in Submits(log) : \E o \in OpenBuys(orders) :
       /\ o.cid = log[i].cid
       /\ log[i].dup

C3_AtMostOneTp ==
  \A a \in OpenTps(orders), b \in OpenTps(orders) :
    a.cid.key = b.cid.key => a = b

\* C3 witness: ensure_tp_after_fills ran on a failed listing of the open
\* orders and submitted a take-profit for a buy whose take-profit is open.
C3_Witness ==
  /\ AfterTp
  /\ Len(log) >= 3
  /\ ~log[2].ok
  /\ \E i \in Submits(log) : \E o \in OpenTps(orders) :
       /\ o.cid = log[i].cid
       /\ log[i].dup

\* Entries of a log by kind.
Cancels(lg) == {i \in 1..Len(lg) : lg[i].op = "cancel"}
CapStops(lg) == {i \in 1..Len(lg) : lg[i].op = "cap"}

FilledGridBuys(book) ==
  {b \in book : b.cid.tag = "GRIDBUY" /\ b.status = "filled" /\ b.filled_qty > 0}

\* C4 as claimed, for one round: when ensure_tp_after_fills has run in a
\* round inside the buffered range and none of its remote calls failed
\* transiently, every grid buy reported as filled with a positive quantity
\* has a take-profit sell that is open or has been filled.
C4_NoMissedTp ==
  (AfterTp /\ \A i \in 1..Len(log) : log[i].ok \/ log[i].dup)
    => \A b \in FilledGridBuys(orders) : \E t \in orders :
         /\ t.side = "sell"
         /\ t.cid.tag = "GRIDTP"
         /\ t.cid.key = b.cid.key
         /\ t.status \in {"new", "filled"}

\* Levels of a grid, all of them and those strictly below the range middle.
BelowMid(g) == {p \in Levels(g) : 2 * p < GRID_LOW + GRID_HIGH}

\* A level has a matching open buy order.
Matched(book, p) == \E o \in OpenBuys(book) : Abs(o.limit_price - p) <= 1

\* ensure_buy_grid has just returned (nothing changed since), was not stopped
\* by the cap, and every submission it made was accepted.
BuyGridUnhindered ==
  /\ AfterBuyGrid
  /\ last = "clean"
  /\ CapStops(log) = {}

\* C5 as claimed: then every level of the grid passed to ensure_buy_grid has
\* a matching open buy order.
C5_EveryLevel ==
  BuyGridUnhindered => \A p \in Levels(grid) : Matched(orders, p)

\* C5 amended: then every level of the grid strictly below the middle of the
\* configured range has a matching open buy order.
C5_EveryLevelBelowMid ==
  BuyGridUnhindered => \A p \in BelowMid(grid) : Matched(orders, p)

\* C5 witness: the call submitted buys, all accepted, and was not stopped.
C5_Witness ==
  /\ BuyGridUnhindered
  /\ Cardinality(Submits(log)) = Cardinality(BelowMid(grid))
  /\ Submits(log) # {}

\* price * quantity of a submission, in cents.
Notional(r) == ((r.price \div 100) * r.qty) \div 10000

RECURSIVE SumNotional(_, _)
SumNotional(lg, I) ==
  IF I = {} THEN 0
  ELSE LET i == CHOOSE x \in I : TRUE
       IN Notional(lg[i]) + SumNotional(lg, I \ {i})

\* C6: the buy orders that ensure_buy_grid submits in one round never sum up
\* to more than the account cash.
C6_BudgetGuard ==
  AfterBuyGrid => SumNotional(log, Submits(log)) <= cash

\* C7: ensure_buy_grid submits a buy only while the open buys it observed
\* plus the buys it submitted are below MAX_OPEN_BUYS, and hence the number
\* of open buy orders never exceeds MAX_OPEN_BUYS.
C7_OpenBuyCap ==
  /\ (AfterBuyGrid /\ last # "changed" /\ Submits(log) # {}) =>
       LET accepted == {i \in Submits(log) : log[i].ok}
           before == Cardinality(OpenBuys(orders)) - Cardinality(accepted)
           observed == IF log[1].ok THEN before ELSE 0
       IN observed + Cardinality(Submits(log)) <= MAX_OPEN_BUYS
  /\ Cardinality(OpenBuys(orders)) <= MAX_OPEN_BUYS

\* The thresholds low * (1 - buffer) and high * (1 + buffer), in cents.
BreakLow == (GRID_LOW * (100 - BREAK_BUFFER_PCT)) \div 100
BreakHigh == (GRID_HIGH * (100 + BREAK_BUFFER_PCT)) \div 100

\* C8: a round declares a range break exactly when its price is strictly
\* below low * (1 - buffer) or strictly above high * (1 + buffer); 3959.99
\* is a break, 3960.01 and the thresholds themselves are not.
C8_BreakBoundary ==
  /\ pc = "break" => (price < BreakLow \/ price > BreakHigh)
  /\ pc = "reconcile" => (price >= BreakLow /\ price <= BreakHigh)
  /\ BreakLow = 396000 /\ BreakHigh = 444400
  /\ check_range_break(395999) /\ ~check_range_break(396001)
  /\ ~check_range_break(BreakLow) /\ ~check_range_break(BreakHigh)

\* C8 witness: a round found the price 3959.99 and declared a break.
C8_Witness == pc = "break" /\ price = 395999

GridTagged(c) == c.tag \in {"GRIDBUY", "GRIDTP"}

\* C9 as claimed: when a range break has been handled, a cancellation was
\* requested for every open order tagged as belonging to the grid, and for
\* no other order.
C9_CancelGridOrders ==
  AfterBreak =>
    /\ \A o \in orders : (IsOpen(o) /\ GridTagged(o.cid)) =>
         \E i \in Cancels(log) : log[i].cid = o.cid
    /\ \A i \in Cancels(log) : GridTagged(log[i].cid)

\* C9 amended: a cancellation was requested for every open order of the
\* symbol that the list-orders call returned, tagged or not (none when that
\* call failed), also after a cancellation that failed.
C9_CancelListedOrders ==
  AfterBreak =>
    IF log[1].ok
    THEN /\ \A o \in orders : IsOpen(o) =>
              \E i \in Cancels(log) : log[i].cid = o.cid /\ ~log[i].ok
         /\ \A i \in Cancels(log) : \E o \in orders :
              /\ o.cid = log[i].cid
              /\ log[i].ok => o.status = "canceled"
    ELSE Cancels(log) = {}

\* C9 witness: a cancellation failed and a later one of the same break
\* succeeded.
C9_Witness ==
  /\ AfterBreak
  /\ \E i \in Cancels(log), j \in Cancels(log) :
       i < j /\ ~log[i].ok /\ log[j].ok

\* C10: in a round that declared a range break the grid is not built, no
\* limit order is submitted, and the round ends with range_break_action: its
\* remote mutations are cancellations and the liquidation order.
C10_BreakShortCircuit ==
  /\ pc = "break" => grid = <<>>
  /\ AfterBreak =>
       /\ pc \in {"sleep", "exit"}
       /\ grid = <<>>
       /\ \A i \in 1..Len(log) : log[i].op \in {"list_open", "cancel", "market"}

\* C10 witness: a break round cancelled an order and liquidated.
C10_Witness ==
  /\ AfterBreak
  /\ \E i \in Cancels(log) : log[i].ok
  /\ \E j \in 1..Len(log) : log[j].op = "market" /\ log[j].ok

\* Entries of a log that are market orders.
Markets(lg) == {i \in 1..Len(lg) : lg[i].op = "market"}

\* The position as market_liquidate read it: the market order, once
\* accepted, took its quantity off the position.
PositionRead(r) == IF r.ok THEN position + r.qty ELSE position

\* C11: a market sell order is submitted only by the break action of a round
\* that declared a range break, only with liquidate-on-break enabled and only
\* on a positive position; its quantity is the entire position, and it comes
\* after every cancellation of that round.
C11_Liquidation ==
  \A i \in Markets(log) :
    /\ AfterBreak
    /\ liquidate
    /\ log[i].side = "sell"
    /\ PositionRead(log[i]) > 0
    /\ log[i].qty = PositionRead(log[i])
    /\ \A j \in Cancels(log) : j < i

\* The same without the quantity of the order.
C11_LiquidationWhen ==
  \A i \in Markets(log) :
    /\ AfterBreak
    /\ liquidate
    /\ log[i].side = "sell"
    /\ PositionRead(log[i]) > 0
    /\ \A j \in Cancels(log) : j < i

\* A break round liquidated after a cancellation.
C11_Reached ==
  /\ AfterBreak
  /\ Cancels(log) # {}
  /\ \E i \in Markets(log) : log[i].ok /\ position = 0

\* C12: no buy submission carries a client order id that an earlier
\* submission carried: none is rejected by the remote as a duplicate of an
\* order already on the book, be that order open, filled or cancelled.
C12_FreshBuyCid ==
  AfterBuyGrid => \A i \in Submits(log) : ~log[i].dup

\* ensure_buy_grid listed the book, found the level's earlier buy closed
\* and had its new buy for the level rejected as a duplicate.
C12_RetryRejected ==
  /\ AfterBuyGrid
  /\ log[1].ok
  /\ \E i \in Submits(log) : \E o \in orders :
       /\ o.cid = log[i].cid
       /\ o.status \in ClosedStatuses
       /\ log[i].dup

\* A call of the handler that ran last failed: the price fetch gave no
\* price, or a list, cancel or submit call was not carried out.
Failed == ran = "now_price" \/ \E i \in 1..Len(log) : ~log[i].ok

\* The positions of the process; "exit" is the return of main (exit status
\* zero), an uncaught exception would be the position "crash".
Positions == {"main", "round", "break", "reconcile", "link", "sleep", "exit"}

\* C13: no failure inside a round is fatal.  The process is never ended by
\* an exception; in loop mode it never ends at all, and after a handler with
\* a failed call the next round is eventually started; in run-once mode the
\* process returns from main after its single round, failed call or not.
C13_NoFatalRound ==
  /\ [](pc \in Positions)
  /\ [](mode = "loop" => pc # "exit")
  /\ Failed ~> (pc = IF mode = "loop" THEN "round" ELSE "exit")

\* C13 witness: in loop mode a round whose last handler had a failed call is
\* over and the process sleeps until the next round.
C13_Witness ==
  /\ mode = "loop"
  /\ pc = "sleep"
  /\ AfterTp
  /\ \E i \in 1..Len(log) : ~log[i].ok /\ ~log[i].dup

\* A remote call that failed transiently (a duplicate is turned down by the
\* remote, it is not a transient failure).
Transient(r) == ~r.ok /\ ~r.dup

\* C14: once a remote call of a round has failed transiently, no further
\* order is submitted in that round (here: by the same handler of the
\* round).
C14_AbortOnError ==
  \A i \in 1..Len(log), j \in 1..Len(log) :
    (i < j /\ Transient(log[i])) => log[j].op \notin {"submit", "market"}

\* ensure_buy_grid went on after a failed list-orders call and had a buy
\* accepted.
C14_SubmitAfterFailedList ==
  /\ AfterBuyGrid
  /\ Transient(log[1])
  /\ \E j \in Submits(log) : log[j].ok

\* build_price_grid has been applied to the settings of the range.
GridBuilt == pc \in {"reconcile", "link"} /\ grid # <<>>

StrictlyAscending(g) == \A i \in 1..Len(g), j \in 1..Len(g) : i < j => g[i] < g[j]

\* The exact levels low + i * (high - low) / levels truncated to a cent.
TruncatedLevels(low, high, levels) ==
  {(low * levels + i * (high - low)) \div levels : i \in 0..levels}

\* C15: for high > low and at least two levels the grid is strictly
\* ascending (hence free of duplicates), each element is a level truncated
\* downwards to a cent, the first is >= low and the last <= high.
C15_GridShape ==
  (GridBuilt /\ GRID_HIGH > GRID_LOW /\ GRID_LEVELS >= 2) =>
    /\ StrictlyAscending(grid)
    /\ Levels(grid) \subseteq TruncatedLevels(GRID_LOW, GRID_HIGH, GRID_LEVELS)
    /\ grid[1] >= GRID_LOW
    /\ grid[Len(grid)] <= GRID_HIGH

\* The same without the truncation and the lower end.
C15_AscendingBelowHigh ==
  (GridBuilt /\ GRID_HIGH > GRID_LOW /\ GRID_LEVELS >= 2) =>
    /\ StrictlyAscending(grid)
    /\ grid[Len(grid)] <= GRID_HIGH

\* The grid was built for the range 4019.99 .. 4400.00.
C15_Reached ==
  GridBuilt /\ GRID_LOW = 401999 /\ GRID_HIGH = 440000 /\ GRID_LEVELS >= 2

\* C16: for high <= low or fewer than two levels build_price_grid returns
\* no level, and the round submits no buy order.
C16_DegenerateEmpty ==
  (pc \in {"reconcile", "link"} /\ (GRID_HIGH <= GRID_LOW \/ GRID_LEVELS < 2)) =>
    /\ grid = <<>>
    /\ AfterBuyGrid => Submits(log) = {}

\* With one level ensure_buy_grid had a buy accepted at the lower end.
C16_BuyOnDegenerate ==
  /\ AfterBuyGrid
  /\ GRID_LEVELS < 2
  /\ \E i \in Submits(log) : log[i].ok /\ log[i].price = GRID_LOW

\* The active range.
Range == <<GRID_LOW, GRID_HIGH>>

\* C17, for the first excursion of a run (no recenter has happened, so no
\* cooldown is running): the step that handles a round whose price is beyond
\* the buffer replaces the active range, and the round goes on with the new
\* range.
C17_RecenterReplacesRange ==
  [][(mode = "once" /\ pc = "break") => (Range' # Range /\ pc' = "reconcile")]_vars

\* What the process does instead: the range stays the configured one.
C17_RangeNeverReplaced == [][Range' = Range]_vars

\* The step of the process that leaves startup.
LeavesStartup == pc = "main" /\ pc' # "main"

CleanSlate == ran = "cancel_all_open_orders"

\* C18: with rebuild-on-start the step that leaves startup, in run-once mode
\* as in loop mode, is the cancel-all (so it comes before any submission of
\* the first round), and no later step is a clean-slate cancel-all.
C18_CleanSlate ==
  [][/\ (LeavesStartup /\ rebuild) => CleanSlate'
     /\ CleanSlate' => (LeavesStartup /\ rebuild)]_vars

\* The same in loop mode only; there the cancel-all asks for the
\* cancellation of every open order that its list call returns.
C18_CleanSlateLoop ==
  [][/\ (LeavesStartup /\ rebuild /\ mode = "loop") =>
          /\ CleanSlate'
          /\ log'[1].ok => \A o \in orders : IsOpen(o) =>
                 \E i \in Cancels(log') : log'[i].cid = o.cid
     /\ CleanSlate' => (LeavesStartup /\ rebuild /\ mode = "loop")]_vars

\* Run-once mode with rebuild-on-start: the round placed a buy next to an
\* order that was open before the start and is still open.
C18_OnceNotCleaned ==
  /\ mode = "once"
  /\ rebuild
  /\ AfterBuyGrid
  /\ \E i \in Submits(log) : log[i].ok
  /\ \E o \in orders : o = ForeignBuy

\* A round that has its price declares a break or builds the grid.
Decides == pc = "round" /\ pc' \in {"break", "reconcile"}

\* C19: the range-break check has no memory.  Whatever the round before
\* did, a round can get any price of the market, and what it does with it
\* depends on the price, the range and the buffer alone: it declares a break
\* exactly when check_range_break holds of the price, and otherwise builds
\* the grid, after which buy reconciliation and fill linking follow.  A
\* break is declared by such a round only.
C19_NoMemory ==
  /\ [](pc = "round" => \A p \in PriceInputs \ {None} :
                          ENABLED (Decides /\ price' = p))
  /\ [][Decides => (pc' = "break" <=> check_range_break(price'))]_vars
  /\ [][pc' = "break" => (pc = "break" \/ Decides)]_vars
  /\ [](pc = "reconcile" => ENABLED EnsureBuyGrid)
  /\ [](pc = "link" => ENABLED EnsureTp)

\* C19 witness: the round after a break round found the price inside the
\* buffered range, and grid building, buy reconciliation and fill linking
\* have run in it.
C19_Witness ==
  /\ broke
  /\ AfterTp
  /\ grid # <<>>

\* The buy orders on the book that carry the grid's tag: those this program
\* has had accepted.
GridBuys(book) == {o \in book : o.side = "buy" /\ o.cid.tag = "GRIDBUY"}

\* C20: every buy that ensure_buy_grid submits is at (the truncation to a
\* cent of) a grid price strictly below the midpoint (GRID_LOW + GRID_HIGH)
\* / 2, no buy order of the program on the book is at or above the midpoint,
\* and the levels at or above it have no buy.
C20_BuysBelowMid ==
  /\ AfterBuyGrid => \A i \in Submits(log) :
       /\ log[i].side = "buy"
       /\ 2 * log[i].price < GRID_LOW + GRID_HIGH
       /\ \E p \in BelowMid(grid) : log[i].price = round_price(p, 1)
  /\ \A o \in GridBuys(orders) : 2 * o.limit_price < GRID_LOW + GRID_HIGH
  /\ \A p \in Levels(grid) \ BelowMid(grid) :
       \A o \in orders : o.side = "buy" => o.limit_price # p

\* C20 witness: ensure_buy_grid had buys accepted at every level below the
\* midpoint while the grid has levels at and above it.
C20_Witness ==
  /\ AfterBuyGrid
  /\ Cardinality({i \in Submits(log) : log[i].ok}) = Cardinality(BelowMid(grid))
  /\ Levels(grid) \ BelowMid(grid) # {}
  /\ BelowMid(grid) # {}

====
